---- MODULE Spec2Model ----
(***************************************************************************)
(* Model of Docs/generate-price-sql.py: the synthetic livestock price      *)
(* generator that prints batched SQL INSERT statements.                    *)
(*                                                                         *)
(* Numbers are fixed point.  Fractions of the base price (trend, seasonal, *)
(* weekly, daily) and prices are integers in units of 1e-4; category       *)
(* multipliers are integers in units of 1e-2; a category price (price      *)
(* times multiplier) is therefore in units of 1e-6 and the '.4f' format    *)
(* rounds it back to 1e-4.  Calendar dates are day ordinals counted from   *)
(* START_DATE (2023-01-01 is ordinal 0).                                   *)
(***************************************************************************)
EXTENDS Integers, Sequences, FiniteSets, TLC

VARIABLES
    END_DATE,         \* day ordinal of datetime.now() at line 13
    hash_secret,      \* the process's string-hash randomisation key
    rng,              \* the shared global generator of module random
    pc,               \* position of the script / of the function under test
    day_offset,       \* loop variable of line 152 (argument of calculate_price)
    category_index,   \* position in CATEGORIES of the inner loop, line 157
    date_str,         \* line 154
    base_price,       \* line 155
    current_batch,    \* line 149
    total_records,    \* line 150
    output,           \* what has been printed so far
    run,              \* 1 for the first execution, 2 for a second one
    previous_output,  \* the rows printed by the first execution
    daily_volatility, \* line 134: the noise of the last calculate_price call
    noise_log,        \* the noise of each calculate_price call under test
    category,         \* argument of a get_category_multiplier call
    multiplier        \* result of that call

vars == <<END_DATE, hash_secret, rng, pc, day_offset, category_index, date_str,
          base_price, current_batch, total_records, output, run,
          previous_output, daily_volatility, noise_log, category, multiplier>>

None == "None"

-----------------------------------------------------------------------------
(* Bounds of the model                                                     *)

\* The script runs are explored for clocks MaxDays-1 and MaxDays days after
\* START_DATE: enough rows to fill one batch of 500 and leave a remainder.
MaxDays == 12
\* A present-day clock for the price function: more than three years after
\* START_DATE, so that all 1095 offsets and a leap year are covered.
NowOrdinal == 1400
\* Hash randomisation keys 0..MaxHashSecret.
MaxHashSecret == 1
\* Entropy seeds 0..MaxOsSeed of the global generator at process start.
MaxOsSeed == 1
\* Interfering row draws use the first MaxInterfere categories, interfering
\* price calls the offsets 0..MaxInterfere.
MaxInterfere == 2
\* calculate_price is called at most MaxCalls times on the offset under test.
MaxCalls == 2

-----------------------------------------------------------------------------
(* Configuration, lines 11-45                                              *)

MAX_DAYS == 1095
BASE_PRICE == 33000
batch_size == 500
PROGRESS_EVERY == 5000

TOTAL_DAYS(end) == IF end < MAX_DAYS THEN end ELSE MAX_DAYS

CATEGORIES == <<
    "Feeder Steer", "Feeder Heifer", "Yearling Steer", "Yearling Bull",
    "Grown Steer", "Grown Bull", "Weaner Steer", "Weaner Bull", "Weaner Heifer",
    "Breeding Cow", "Breeder", "Dry Cow", "Cull Cow", "Heifer",
    "First Calf Heifer", "Slaughter Cattle", "Calves",
    "Breeding Ewe", "Maiden Ewe", "Dry Ewe", "Cull Ewe",
    "Weaner Ewe", "Feeder Ewe", "Slaughter Ewe",
    "Wether Lamb", "Weaner Lamb", "Feeder Lamb", "Slaughter Lamb", "Lambs",
    "Breeder", "Dry Sow", "Cull Sow", "Weaner Pig", "Feeder Pig",
    "Grower Pig", "Finisher Pig", "Porker", "Baconer",
    "Grower Barrow", "Finisher Barrow",
    "Breeder Doe", "Dry Doe", "Cull Doe", "Breeder Buck", "Sale Buck",
    "Mature Wether", "Rangeland Goat", "Capretto", "Chevon" >>

SALEYARDS == <<
    "Wagga Wagga Livestock Marketing Centre",
    "Dubbo Regional Livestock Market",
    "Roma Saleyards",
    "Ballarat Regional Livestock Exchange",
    "Mount Gambier Livestock Exchange" >>

STATES == << "NSW", "VIC", "QLD", "SA", "WA" >>

-----------------------------------------------------------------------------
(* Strings                                                                 *)

\* Python's  x in s  on strings: x occurs in s as a contiguous substring.
In(x, s) == \E i \in 1..(Len(s) - Len(x) + 1) : SubSeq(s, i, i + Len(x) - 1) = x

\* any(x in s for x in xs)
AnyIn(xs, s) == \E k \in 1..Len(xs) : In(xs[k], s)

\* str.replace("'", "''") of line 163
RECURSIVE EscapeQuotes(_)
EscapeQuotes(s) ==
    IF Len(s) = 0 THEN ""
    ELSE (IF SubSeq(s, 1, 1) = "'" THEN "''" ELSE SubSeq(s, 1, 1))
         \o EscapeQuotes(SubSeq(s, 2, Len(s)))

Pad(n, width) ==
    LET t == ToString(n)
    IN  IF Len(t) >= width THEN t
        ELSE SubSeq("0000", 1, width - Len(t)) \o t

-----------------------------------------------------------------------------
(* Calendar (datetime, timedelta, strftime, timetuple)                     *)

START_YEAR == 2023

IsLeap(y) == (y % 4 = 0 /\ y % 100 # 0) \/ y % 400 = 0
DaysInYear(y) == IF IsLeap(y) THEN 366 ELSE 365

\* The year and the 1-based day of the year of a day ordinal.
RECURSIVE YearDay(_, _)
YearDay(ord, y) ==
    IF ord < DaysInYear(y) THEN [year |-> y, yday |-> ord + 1]
    ELSE YearDay(ord - DaysInYear(y), y + 1)

MonthLengths(y) ==
    << 31, IF IsLeap(y) THEN 29 ELSE 28, 31, 30, 31, 30, 31, 31, 30, 31, 30, 31 >>

RECURSIVE MonthDay(_, _, _)
MonthDay(yday, y, m) ==
    IF yday <= MonthLengths(y)[m] THEN [month |-> m, day |-> yday]
    ELSE MonthDay(yday - MonthLengths(y)[m], y, m + 1)

\* date.timetuple().tm_yday
tm_yday(ord) == YearDay(ord, START_YEAR).yday

\* date.strftime('%Y-%m-%d')
strftime(ord) ==
    LET yd == YearDay(ord, START_YEAR)
        md == MonthDay(yd.yday, yd.year, 1)
    IN  ToString(yd.year) \o "-" \o Pad(md.month, 2) \o "-" \o Pad(md.day, 2)

\* Line 123: the date calculate_price takes the day of the year from.
SeasonalDate(end, d) == end - (TOTAL_DAYS(end) - d)

\* Line 153: the date a row of offset d is emitted with.
RowDate(end, d) == end - (TOTAL_DAYS(end) - d - 1)

-----------------------------------------------------------------------------
(* The global pseudo-random generator of module random.  Its state is the  *)
(* seed it was last given and the number of draws made since; the k-th     *)
(* draw after a seed is a fixed function of both.                          *)

RNG_MOD == 65536
RNG_MUL == 25173
RNG_INC == 13849
RNG_RES == 4096

Abs(n) == IF n < 0 THEN -n ELSE n

\* random.seed(a) for an int a: the state depends on abs(a) only.
Seed(a) == [seed |-> Abs(a), draws |-> 0]

RECURSIVE Scramble(_, _)
Scramble(x, k) ==
    IF k = 0 THEN x ELSE Scramble((x * RNG_MUL + RNG_INC) % RNG_MOD, k - 1)

\* The next raw draw of a generator state, 0..RNG_RES-1, and the state after.
Raw(g) == Scramble(g.seed % RNG_MOD, g.draws + 1) \div (RNG_MOD \div RNG_RES)
Advance(g) == [g EXCEPT !.draws = @ + 1]

\* random.uniform(a, b) = a + (b - a) * random()
Uniform(g, a, b) == a + ((b - a) * Raw(g)) \div RNG_RES

\* random.choice(seq)
Choice(g, seq) == seq[((Raw(g) * Len(seq)) \div RNG_RES) + 1]

-----------------------------------------------------------------------------
(* hash(category): a string hash keyed by the process's randomisation key. *)

HASH_MOD == 65536
HASH_MUL == 31
HASH_KEY == 7919

Alphabet == " ABCDEFGHIJKLMNOPQRSTUVWXYZabcdefghijklmnopqrstuvwxyz"

Code(ch) == CHOOSE i \in 1..Len(Alphabet) : SubSeq(Alphabet, i, i) = ch

RECURSIVE HashFrom(_, _, _)
HashFrom(h, s, i) ==
    IF i > Len(s) THEN h
    ELSE HashFrom((h * HASH_MUL + Code(SubSeq(s, i, i))) % HASH_MOD, s, i + 1)

\* A signed value that depends on the string and on the process's key.
Hash(secret, s) ==
    HashFrom((secret * HASH_KEY) % HASH_MOD, s, 1) - (HASH_MOD \div 2)

-----------------------------------------------------------------------------
(* get_category_multiplier, lines 47-100.  Results are in units of 1e-2.   *)

\* The same chain with the goat rule for "Breeder Doe" captured by a generic
\* "Breeder" rule placed ahead of it.
get_category_multiplier_breeder_first(c) ==
    IF In("Breeder", c) THEN 100
    ELSE IF In("Breeder Doe", c) \/ In("Dry Doe", c) THEN 130
    ELSE 100

get_category_multiplier(c) ==
    \* Cattle
    IF In("Weaner", c) /\ AnyIn(<<"Steer", "Bull", "Heifer">>, c) THEN 118
    ELSE IF In("Yearling", c) /\ AnyIn(<<"Steer", "Bull">>, c) THEN 122
    ELSE IF AnyIn(<<"Breeding", "Heifer", "Dry Cow">>, c) \/ c = "Breeder" THEN 115
    ELSE IF In("Cull Cow", c) THEN 95
    ELSE IF In("Feeder", c) /\ AnyIn(<<"Steer", "Heifer">>, c) THEN 118
    ELSE IF In("Grown", c) /\ AnyIn(<<"Steer", "Bull">>, c) THEN 100
    ELSE IF In("Slaughter Cattle", c) THEN 92
    ELSE IF In("Calves", c) THEN 125
    \* Sheep
    ELSE IF AnyIn(<<"Breeding Ewe", "Maiden Ewe", "Dry Ewe">>, c) THEN 320
    ELSE IF AnyIn(<<"Cull Ewe", "Slaughter Ewe">>, c) THEN 280
    ELSE IF AnyIn(<<"Wether Lamb", "Weaner Lamb", "Feeder Lamb">>, c) THEN 350
    ELSE IF AnyIn(<<"Slaughter Lamb", "Lambs">>, c) THEN 330
    \* Pigs
    ELSE IF (In("Breeder", c) \/ In("Dry Sow", c)) /\ In("Sow", c) THEN 66
    ELSE IF In("Cull Sow", c) THEN 60
    ELSE IF AnyIn(<<"Weaner Pig", "Feeder Pig">>, c) THEN 70
    ELSE IF In("Grower", c) \/ In("Finisher", c) THEN 65
    ELSE IF In("Porker", c) \/ In("Baconer", c) THEN 66
    \* Goats
    ELSE IF In("Breeder Doe", c) \/ In("Dry Doe", c) THEN 130
    ELSE IF In("Cull Doe", c) THEN 120
    ELSE IF In("Breeder Buck", c) \/ In("Sale Buck", c) THEN 135
    ELSE IF In("Mature Wether", c) \/ In("Rangeland Goat", c) THEN 130
    ELSE IF In("Capretto", c) THEN 153
    ELSE IF In("Chevon", c) THEN 125
    ELSE 100

-----------------------------------------------------------------------------
(* calculate_price, lines 102-138.  Fractions and prices in units of 1e-4. *)

UNIT == 10000
SEGMENT == 219
PRICE_MIN == 31000
PRICE_MAX == 35000
NOISE == 300

\* n / d scaled by 1e4 and truncated, for 0 <= n and 0 < d, two decimal
\* digits at a time so that no intermediate product leaves 32 bits.
ScaledDiv(n, d) ==
    LET r0 == n % d
        d1 == (r0 * 100) \div d
        r1 == (r0 * 100) % d
        d2 == (r1 * 100) \div d
    IN  (n \div d) * UNIT + d1 * 100 + d2

\* sin(pi * a / b) for 0 <= a <= b, by Bhaskara's rational approximation
\* 16 p (1 - p) / (5 - 4 p (1 - p)) with p = a / b.
SinHalfTurn(a, b) ==
    LET q == a * (b - a)
    IN  ScaledDiv(16 * q, 5 * b * b - 4 * q)

\* math.sin(2 * pi * tn / td), for any integer tn and td > 0.
Sin(tn, td) ==
    LET tm == tn % td
    IN  IF 2 * tm <= td THEN SinHalfTurn(2 * tm, td)
        ELSE -SinHalfTurn(2 * tm - td, td)

\* x * num / den truncated toward zero (a product with a decimal literal).
Scale(x, num, den) ==
    IF x >= 0 THEN (x * num) \div den ELSE -(((-x) * num) \div den)

\* Lines 104-120.  progress = d / 1095.0, so progress < 0.2 is d < 219, and
\* (progress - lo) / 0.2 is (d - 1095 * lo) / 219.
Trend(d) ==
    IF d < SEGMENT THEN -Scale(d, 500, SEGMENT)
    ELSE IF d < 2 * SEGMENT THEN -500 - Scale(d - SEGMENT, 2500, SEGMENT)
    ELSE IF d < 3 * SEGMENT THEN -3000 + Scale(d - 2 * SEGMENT, 2000, SEGMENT)
    ELSE IF d < 4 * SEGMENT THEN -1000 + Scale(d - 3 * SEGMENT, 1500, SEGMENT)
    ELSE 500 + Scale(d - 4 * SEGMENT, 1000, SEGMENT)

\* Lines 123-125: sin(day_of_year / 365 * 2 pi - pi / 2) * 0.10
Seasonal(end, d) ==
    Scale(Sin(4 * tm_yday(SeasonalDate(end, d)) - 365, 4 * 365), 10, 100)

\* Lines 128-130: sin(((d // 7) % 13) / 13 * 2 pi) * 0.08
Weekly(d) == Scale(Sin((d \div 7) % 13, 13), 8, 100)

\* Line 133 with the reseeding left out: the draw of line 134 is taken from
\* whatever state the shared generator is in.
PriceSeedKeep(g, d) == g

\* Line 133: random.seed(day_offset)
PriceSeed(g, d) == Seed(d)

\* Line 134: random.uniform(-0.03, 0.03) on the generator as seeded.
DailyVolatility(g, d) == Uniform(PriceSeed(g, d), -NOISE, NOISE)

\* Line 138 without the clamp.
ClampNone(x) == x

\* Line 138: max(3.10, min(3.50, x))
Clamp(x) ==
    LET lo == IF x < PRICE_MAX THEN x ELSE PRICE_MAX
    IN  IF lo > PRICE_MIN THEN lo ELSE PRICE_MIN

\* Line 137
AdjustedPrice(g, end, d) ==
    Scale(BASE_PRICE,
          UNIT + Trend(d) + Seasonal(end, d) + Weekly(d) + DailyVolatility(g, d),
          UNIT)

\* The value calculate_price(d) returns when called with the generator in
\* state g, and the state it leaves the generator in.
calculate_price(g, end, d) == Clamp(AdjustedPrice(g, end, d))
RngAfterPrice(g, d) == Advance(PriceSeed(g, d))

-----------------------------------------------------------------------------
(* The row generator, lines 152-177                                        *)

Last(seq) == seq[Len(seq)]

\* Line 159 with the multiplier left out.
CategoryPriceFlat(base, c) == base * 100

\* Line 159: base_price * get_category_multiplier(category), in units of 1e-6.
CategoryPrice(base, c) == base * get_category_multiplier(c)

\* f"{category_price:.4f}": rounded to four decimals and written out.
FormatPrice(cp) ==
    LET q == (cp + 50) \div 100
    IN  ToString(q \div UNIT) \o "." \o Pad(q % UNIT, 4)

\* Line 162: random.seed(day_offset + hash(category))
RowSeed(secret, d, c) == Seed(d + Hash(secret, c))

\* Lines 163-164
ChooseSaleyard(secret, d, c) == EscapeQuotes(Choice(RowSeed(secret, d, c), SALEYARDS))
ChooseState(secret, d, c) == Choice(Advance(RowSeed(secret, d, c)), STATES)
RngAfterRow(secret, d, c) == Advance(Advance(RowSeed(secret, d, c)))

\* Lines 167-172
Source(d) ==
    IF d < 7 THEN "Saleyard"
    ELSE IF d < 30 THEN "State Indicator"
    ELSE "National Benchmark"

\* Line 175: the value tuple of one row.  day_offset, position and
\* category_price are not printed; they record which iteration of the nested
\* loop built the tuple and the price before formatting.
Value(secret, d, pos, base, datestr) ==
    [ category       |-> CATEGORIES[pos],
      saleyard       |-> ChooseSaleyard(secret, d, CATEGORIES[pos]),
      state          |-> ChooseState(secret, d, CATEGORIES[pos]),
      price_per_kg   |-> FormatPrice(CategoryPrice(base, CATEGORIES[pos])),
      price_date     |-> datestr,
      source         |-> Source(d),
      is_historical  |-> TRUE,
      day_offset     |-> d,
      position       |-> pos,
      category_price |-> CategoryPrice(base, CATEGORIES[pos]) ]

-----------------------------------------------------------------------------
(* Batching and printing, lines 141-197                                    *)

Insert(batch) == [kind |-> "INSERT", values |-> batch]
Progress(n) == [kind |-> "progress", records |-> n]

\* Line 180 with an off-by-one comparison.
BatchFullStrict(batch) == Len(batch) > batch_size

\* Line 180: the batch is printed when it is full.
BatchFull(batch) == Len(batch) >= batch_size

\* Lines 181-188: what a full batch prints.
PrintBatch(batch, total) ==
    <<Insert(batch)>> \o
    (IF total % PROGRESS_EVERY = 0 THEN <<Progress(total)>> ELSE <<>>)

\* Lines 191-194 with the remainder dropped.
PrintRemainderNone(batch) == <<>>

\* Lines 191-194: the remainder is printed if there is one.
PrintRemainder(batch) == IF batch # <<>> THEN <<Insert(batch)>> ELSE <<>>

\* Lines 141-150
PrintHeader ==
    /\ pc = "header"
    /\ output' = <<[kind |-> "header",
                    records |-> TOTAL_DAYS(END_DATE) * Len(CATEGORIES)]>>
    /\ current_batch' = <<>>
    /\ total_records' = 0
    /\ day_offset' = 0
    /\ pc' = "day"
    /\ UNCHANGED <<END_DATE, hash_secret, rng, category_index, date_str,
                   base_price, run, previous_output, daily_volatility,
                   noise_log, category, multiplier>>

\* Lines 152-155: the head of one iteration of the outer loop.
BeginDay ==
    /\ pc = "day"
    /\ day_offset < TOTAL_DAYS(END_DATE)
    /\ date_str' = strftime(RowDate(END_DATE, day_offset))
    /\ base_price' = calculate_price(rng, END_DATE, day_offset)
    /\ daily_volatility' = DailyVolatility(rng, day_offset)
    /\ rng' = RngAfterPrice(rng, day_offset)
    /\ category_index' = 1
    /\ pc' = "row"
    /\ UNCHANGED <<END_DATE, hash_secret, day_offset, current_batch,
                   total_records, output, run, previous_output, noise_log,
                   category, multiplier>>

\* Lines 157-188: one iteration of the inner loop.
EmitRow ==
    /\ pc = "row"
    /\ LET value == Value(hash_secret, day_offset, category_index, base_price, date_str)
           batch == Append(current_batch, value)
           total == total_records + 1
       IN  /\ rng' = RngAfterRow(hash_secret, day_offset, CATEGORIES[category_index])
           /\ total_records' = total
           /\ IF BatchFull(batch)
              THEN /\ output' = output \o PrintBatch(batch, total)
                   /\ current_batch' = <<>>
              ELSE /\ output' = output
                   /\ current_batch' = batch
    /\ IF category_index < Len(CATEGORIES)
       THEN /\ category_index' = category_index + 1
            /\ UNCHANGED <<day_offset, pc>>
       ELSE /\ day_offset' = day_offset + 1
            /\ pc' = "day"
            /\ UNCHANGED category_index
    /\ UNCHANGED <<END_DATE, hash_secret, date_str, base_price, run,
                   previous_output, daily_volatility, noise_log, category,
                   multiplier>>

\* Lines 190-197: the loop is over; the remainder and the footer are printed.
\* current_batch is not reset.
FinalFlush ==
    /\ pc = "day"
    /\ day_offset >= TOTAL_DAYS(END_DATE)
    /\ output' = output \o PrintRemainder(current_batch)
                        \o <<[kind |-> "footer", records |-> total_records]>>
    /\ pc' = "done"
    /\ UNCHANGED <<END_DATE, hash_secret, rng, day_offset, category_index,
                   date_str, base_price, current_batch, total_records, run,
                   previous_output, daily_volatility, noise_log, category,
                   multiplier>>

HashSecrets == 0..MaxHashSecret
OsSeeds == 0..MaxOsSeed
ScriptEndDates == (MaxDays - 1)..MaxDays

\* The state of a fresh process at line 141.
Start(end, secret, os) ==
    /\ END_DATE = end
    /\ hash_secret = secret
    /\ rng = Seed(os)
    /\ pc = "header"
    /\ day_offset = 0
    /\ category_index = 1
    /\ date_str = None
    /\ base_price = 0
    /\ current_batch = <<>>
    /\ total_records = 0
    /\ output = <<>>
    /\ daily_volatility = 0
    /\ noise_log = <<>>
    /\ category = None
    /\ multiplier = 0

Init ==
    /\ \E end \in ScriptEndDates, secret \in HashSecrets, os \in OsSeeds :
          Start(end, secret, os)
    /\ run = 1
    /\ previous_output = <<>>

Next == PrintHeader \/ BeginDay \/ EmitRow \/ FinalFlush

Spec == Init /\ [][Next]_vars

\* The script is executed a second time, by a new process with its own hash
\* randomisation key and generator state, for the same END_DATE.
Rerun ==
    /\ pc = "done"
    /\ run = 1
    /\ run' = 2
    /\ previous_output' = output
    /\ \E secret \in HashSecrets, os \in OsSeeds :
          /\ hash_secret' = secret
          /\ rng' = Seed(os)
    /\ pc' = "header"
    /\ day_offset' = 0
    /\ category_index' = 1
    /\ date_str' = None
    /\ base_price' = 0
    /\ current_batch' = <<>>
    /\ total_records' = 0
    /\ output' = <<>>
    /\ daily_volatility' = 0
    /\ UNCHANGED <<END_DATE, noise_log, category, multiplier>>

NextRuns == Next \/ Rerun

SpecRuns == Init /\ [][NextRuns]_vars

\* All rows printed in INSERT statements of an output.
RECURSIVE RowsOf(_)
RowsOf(out) ==
    IF out = <<>> THEN <<>>
    ELSE (IF Head(out).kind = "INSERT" THEN Head(out).values ELSE <<>>)
         \o RowsOf(Tail(out))

Inserts(out) == { i \in 1..Len(out) : out[i].kind = "INSERT" }

-----------------------------------------------------------------------------
(* calculate_price exercised on its own: every offset of the range, for a  *)
(* short history and for a present-day clock.                              *)

PriceEndDates == {MaxDays, NowOrdinal}

InitPrice ==
    /\ END_DATE \in PriceEndDates
    /\ hash_secret \in HashSecrets
    /\ rng \in { Seed(os) : os \in OsSeeds }
    /\ pc = "price"
    /\ day_offset \in 0..(TOTAL_DAYS(END_DATE) - 1)
    /\ category_index = 1
    /\ date_str = None
    /\ base_price = 0
    /\ current_batch = <<>>
    /\ total_records = 0
    /\ output = <<>>
    /\ run = 1
    /\ previous_output = <<>>
    /\ daily_volatility = 0
    /\ noise_log = <<>>
    /\ category = None
    /\ multiplier = 0

\* A call calculate_price(day_offset), lines 102-138.  noise_log records the
\* noise drawn and whether the generator was found as the previous such call
\* left it.
PriceCall ==
    /\ pc = "price"
    /\ Len(noise_log) < MaxCalls
    /\ base_price' = calculate_price(rng, END_DATE, day_offset)
    /\ daily_volatility' = DailyVolatility(rng, day_offset)
    /\ noise_log' = Append(noise_log,
                           [value     |-> DailyVolatility(rng, day_offset),
                            untouched |-> rng = Advance(Seed(day_offset))])
    /\ rng' = RngAfterPrice(rng, day_offset)
    /\ UNCHANGED <<END_DATE, hash_secret, pc, day_offset, category_index,
                   date_str, current_batch, total_records, output, run,
                   previous_output, category, multiplier>>

NextPrice == PriceCall

SpecPrice == InitPrice /\ [][NextPrice]_vars

\* The same call with other users of the shared generator in between: the
\* row generator's seed and two choices (lines 162-164), and calls of
\* calculate_price for other offsets.
InitNoise ==
    /\ InitPrice
    /\ END_DATE = MaxDays

OtherPriceCall ==
    /\ pc = "price"
    /\ \E d \in 0..MaxInterfere :
          /\ d # day_offset
          /\ rng' = RngAfterPrice(rng, d)
    /\ UNCHANGED <<END_DATE, hash_secret, pc, day_offset, category_index,
                   date_str, base_price, current_batch, total_records, output,
                   run, previous_output, daily_volatility, noise_log, category,
                   multiplier>>

RowDraws ==
    /\ pc = "price"
    /\ \E k \in 1..MaxInterfere :
          rng' = RngAfterRow(hash_secret, day_offset, CATEGORIES[k])
    /\ UNCHANGED <<END_DATE, hash_secret, pc, day_offset, category_index,
                   date_str, base_price, current_batch, total_records, output,
                   run, previous_output, daily_volatility, noise_log, category,
                   multiplier>>

NextNoise == PriceCall \/ OtherPriceCall \/ RowDraws

SpecNoise == InitNoise /\ [][NextNoise]_vars

-----------------------------------------------------------------------------
(* get_category_multiplier exercised on its own.                           *)

Range(seq) == { seq[i] : i \in 1..Len(seq) }

LookupInputs ==
    Range(CATEGORIES) \cup
    { "Breeder Sow", "Breeder Boar", "Breeder Ewe", "Yearling Heifer",
      "Feeder Bull", "Grown Heifer", "Weaner", "Steer", "Cow", "Goat",
      "Lamb", "Ewe", "Dry", "Cull Cow Heifer", "Breeding Sow",
      "Weaner Lambs", "Grower", "Doe" }

InitMult ==
    /\ category \in LookupInputs
    /\ multiplier = 0
    /\ pc = "lookup"
    /\ END_DATE = MaxDays
    /\ hash_secret = 0
    /\ rng = Seed(0)
    /\ day_offset = 0
    /\ category_index = 1
    /\ date_str = None
    /\ base_price = 0
    /\ current_batch = <<>>
    /\ total_records = 0
    /\ output = <<>>
    /\ run = 1
    /\ previous_output = <<>>
    /\ daily_volatility = 0
    /\ noise_log = <<>>

\* A call get_category_multiplier(category)
Lookup ==
    /\ pc = "lookup"
    /\ multiplier' = get_category_multiplier(category)
    /\ pc' = "returned"
    /\ UNCHANGED <<END_DATE, hash_secret, rng, day_offset, category_index,
                   date_str, base_price, current_batch, total_records, output,
                   run, previous_output, daily_volatility, noise_log, category>>

NextMult == Lookup

SpecMult == InitMult /\ [][NextMult]_vars

-----------------------------------------------------------------------------
(* The rules of get_category_multiplier as an ordered list, lines 50-98:   *)
(* the predicate of each rule, its multiplier, and the category names it   *)
(* spells out.                                                             *)

RuleMatches(i, c) ==
    CASE i = 1  -> In("Weaner", c) /\ AnyIn(<<"Steer", "Bull", "Heifer">>, c)
      [] i = 2  -> In("Yearling", c) /\ AnyIn(<<"Steer", "Bull">>, c)
      [] i = 3  -> AnyIn(<<"Breeding", "Heifer", "Dry Cow">>, c) \/ c = "Breeder"
      [] i = 4  -> In("Cull Cow", c)
      [] i = 5  -> In("Feeder", c) /\ AnyIn(<<"Steer", "Heifer">>, c)
      [] i = 6  -> In("Grown", c) /\ AnyIn(<<"Steer", "Bull">>, c)
      [] i = 7  -> In("Slaughter Cattle", c)
      [] i = 8  -> In("Calves", c)
      [] i = 9  -> AnyIn(<<"Breeding Ewe", "Maiden Ewe", "Dry Ewe">>, c)
      [] i = 10 -> AnyIn(<<"Cull Ewe", "Slaughter Ewe">>, c)
      [] i = 11 -> AnyIn(<<"Wether Lamb", "Weaner Lamb", "Feeder Lamb">>, c)
      [] i = 12 -> AnyIn(<<"Slaughter Lamb", "Lambs">>, c)
      [] i = 13 -> (In("Breeder", c) \/ In("Dry Sow", c)) /\ In("Sow", c)
      [] i = 14 -> In("Cull Sow", c)
      [] i = 15 -> AnyIn(<<"Weaner Pig", "Feeder Pig">>, c)
      [] i = 16 -> In("Grower", c) \/ In("Finisher", c)
      [] i = 17 -> In("Porker", c) \/ In("Baconer", c)
      [] i = 18 -> In("Breeder Doe", c) \/ In("Dry Doe", c)
      [] i = 19 -> In("Cull Doe", c)
      [] i = 20 -> In("Breeder Buck", c) \/ In("Sale Buck", c)
      [] i = 21 -> In("Mature Wether", c) \/ In("Rangeland Goat", c)
      [] i = 22 -> In("Capretto", c)
      [] i = 23 -> In("Chevon", c)

RuleMultiplier ==
    << 118, 122, 115, 95, 118, 100, 92, 125,
       320, 280, 350, 330,
       66, 60, 70, 65, 66,
       130, 120, 135, 130, 153, 125 >>

RuleNames ==
    << {"Weaner Steer", "Weaner Bull", "Weaner Heifer"},
       {"Yearling Steer", "Yearling Bull"},
       {"Breeding", "Heifer", "Dry Cow", "Breeder"},
       {"Cull Cow"},
       {"Feeder Steer", "Feeder Heifer"},
       {"Grown Steer", "Grown Bull"},
       {"Slaughter Cattle"},
       {"Calves"},
       {"Breeding Ewe", "Maiden Ewe", "Dry Ewe"},
       {"Cull Ewe", "Slaughter Ewe"},
       {"Wether Lamb", "Weaner Lamb", "Feeder Lamb"},
       {"Slaughter Lamb", "Lambs"},
       {"Dry Sow"},
       {"Cull Sow"},
       {"Weaner Pig", "Feeder Pig"},
       {"Grower", "Finisher"},
       {"Porker", "Baconer"},
       {"Breeder Doe", "Dry Doe"},
       {"Cull Doe"},
       {"Breeder Buck", "Sale Buck"},
       {"Mature Wether", "Rangeland Goat"},
       {"Capretto"},
       {"Chevon"} >>

DEFAULT_MULTIPLIER == 100

Rules == 1..Len(RuleMultiplier)

\* The multiplier of the first rule, in the written order, that matches.
FirstMatch(c) ==
    IF \E i \in Rules : RuleMatches(i, c)
    THEN RuleMultiplier[CHOOSE i \in Rules :
                           /\ RuleMatches(i, c)
                           /\ \A j \in 1..(i - 1) : ~RuleMatches(j, c)]
    ELSE DEFAULT_MULTIPLIER

-----------------------------------------------------------------------------
(* Properties                                                              *)

\* C1: whatever the trend, seasonal, weekly and daily components sum to,
\* calculate_price returns a value between 3.10 and 3.50.
C1_PriceWithinClamp ==
    noise_log # <<>> => (PRICE_MIN <= base_price /\ base_price <= PRICE_MAX)

\* A call whose unclamped price lies above 3.50 and was cut back to it.
C1_Witness ==
    /\ pc = "price"
    /\ noise_log # <<>>
    /\ AdjustedPrice(Seed(day_offset), END_DATE, day_offset) > PRICE_MAX
    /\ base_price = PRICE_MAX

\* C7: for a fixed day offset every call of calculate_price draws the same
\* daily noise, whatever was done to the shared generator between the calls.
C7_NoiseRepeats ==
    \A i, j \in 1..Len(noise_log) : noise_log[i].value = noise_log[j].value

\* Two calls, the second finding the generator in another state than the
\* first call left it in.
C7_Witness ==
    /\ Len(noise_log) >= 2
    /\ ~noise_log[2].untouched
    /\ daily_volatility = noise_log[1].value

\* C5: the lookup returns the multiplier of the first rule that matches, 1.0
\* when none does, and 'Breeder Doe' gets 1.30 from its goat rule, no earlier
\* rule that mentions 'Breeder' capturing it.
C5_FirstMatchWins ==
    pc = "returned" =>
        /\ multiplier = FirstMatch(category)
        /\ category = "Breeder Doe" =>
              /\ multiplier = 130
              /\ \A j \in 1..17 : ~RuleMatches(j, category)

\* The lookup of 'Breeder Doe' has returned.
C5_Witness ==
    /\ pc = "returned"
    /\ category = "Breeder Doe"
    /\ RuleMatches(18, category)
    /\ multiplier = 130

\* C10: every configured category that a rule names gets that rule's
\* multiplier ('Breeding Ewe' 3.2, 'Feeder Heifer' 1.18, ...).
C10_NoRuleShadowed ==
    (pc = "returned" /\ category \in Range(CATEGORIES)) =>
        /\ \A i \in Rules : category \in RuleNames[i] => multiplier = RuleMultiplier[i]
        /\ category \in {"Breeding Ewe", "Maiden Ewe", "Dry Ewe"} => multiplier = 320
        /\ category = "Feeder Heifer" => multiplier = 118

\* Every row emitted so far: the printed ones, then the buffered ones that
\* have not been printed.
Printed == RowsOf(output)
Emitted == IF pc = "done" THEN Printed ELSE Printed \o current_batch

\* A printed statement whose tuples are still at the head of the buffer.
StillBuffered(stmt) ==
    /\ Len(current_batch) >= Len(stmt.values)
    /\ SubSeq(current_batch, 1, Len(stmt.values)) = stmt.values

StatementSizes ==
    /\ \A i \in Inserts(output) :
          /\ Len(output[i].values) >= 1
          /\ Len(output[i].values) <= batch_size
    /\ Len(current_batch) <= batch_size

\* C2 as stated: every printed INSERT statement carries 1 to 500 tuples, the
\* buffer never holds more than 500, and the buffer is emptied every time it
\* is printed, the final flush included.
C2_EmptiedEveryTime ==
    /\ StatementSizes
    /\ \A i \in Inserts(output) : ~StillBuffered(output[i])

\* C2 amended: every printed INSERT statement carries 1 to 500 tuples, the
\* buffer never holds more than 500, and the buffer is emptied every time the
\* loop prints it; the final flush prints the remainder and leaves it in the
\* buffer.
C2_EmptiedInLoop ==
    /\ StatementSizes
    /\ pc # "done" => \A i \in Inserts(output) : ~StillBuffered(output[i])
    /\ pc = "done" =>
          \A i \in Inserts(output) :
              StillBuffered(output[i]) =>
                  /\ i = Len(output) - 1
                  /\ output[i].values = current_batch

\* The run is over: a full batch was printed by the loop and emptied, and a
\* remainder by the final flush.
C2_Witness ==
    /\ pc = "done"
    /\ Cardinality(Inserts(output)) = 2
    /\ \E i \in Inserts(output) :
          /\ Len(output[i].values) = batch_size
          /\ ~StillBuffered(output[i])
    /\ \E i \in Inserts(output) :
          /\ Len(output[i].values) < batch_size
          /\ StillBuffered(output[i])

\* C3: when the script ends, the INSERT statements hold TOTAL_DAYS *
\* len(CATEGORIES) tuples, one for each (day offset, category position) of
\* the nested loop, and every tuple of the buffer has been printed.
C3_AllRowsPrintedOnce ==
    pc = "done" =>
        /\ Len(Printed) = TOTAL_DAYS(END_DATE) * Len(CATEGORIES)
        /\ Len(Printed) = output[1].records
        /\ Len(Printed) = total_records
        /\ \A d \in 0..(TOTAL_DAYS(END_DATE) - 1), k \in 1..Len(CATEGORIES) :
              Cardinality({ n \in 1..Len(Printed) :
                              /\ Printed[n].day_offset = d
                              /\ Printed[n].position = k }) = 1
        /\ \A n \in 1..Len(current_batch) :
              \E m \in 1..Len(Printed) : Printed[m] = current_batch[n]

\* The run is over with full batches and a remainder printed.
C3_Witness ==
    /\ pc = "done"
    /\ Len(Printed) > batch_size
    /\ Len(Printed) % batch_size # 0
    /\ Last(output).kind = "footer"

\* The clamped base price of a day offset.
BasePriceOf(end, d) == Clamp(AdjustedPrice(Seed(d), end, d))

RowPriced(r) ==
    /\ r.category_price =
          BasePriceOf(END_DATE, r.day_offset) * get_category_multiplier(r.category)
    /\ r.price_per_kg = FormatPrice(r.category_price)
    /\ r.category = "Grown Steer" =>
          /\ r.category_price = BasePriceOf(END_DATE, r.day_offset) * 100
          /\ r.category_price >= PRICE_MIN * 100
          /\ r.category_price <= PRICE_MAX * 100
    /\ r.category = "Capretto" =>
          r.category_price = BasePriceOf(END_DATE, r.day_offset) * 153

\* C4: the price of every emitted row is the clamped base price of its day
\* multiplied by the multiplier of its category, the multiplier applied after
\* the clamp: 'Grown Steer' rows carry the base price, 'Capretto' rows the
\* base price times 1.53.
C4_MultiplierAfterClamp ==
    /\ (pc \in {"row", "day"} /\ current_batch # <<>>) =>
          /\ RowPriced(Last(current_batch))
          /\ Last(current_batch).day_offset = day_offset =>
                Last(current_batch).category_price =
                    base_price * get_category_multiplier(Last(current_batch).category)
    /\ pc = "done" => \A n \in 1..Len(Printed) : RowPriced(Printed[n])

\* A 'Capretto' row whose price lies above the clamp range.
C4_Witness ==
    /\ pc = "row"
    /\ current_batch # <<>>
    /\ Last(current_batch).category = "Capretto"
    /\ Last(current_batch).category_price = base_price * 153
    /\ Last(current_batch).category_price > PRICE_MAX * 100

\* C8: no two emitted rows share the conflict key (category, saleyard,
\* price_date).
C8_ConflictKeysDistinct ==
    \A m, n \in 1..Len(Emitted) :
        (/\ Emitted[m].category = Emitted[n].category
         /\ Emitted[m].saleyard = Emitted[n].saleyard
         /\ Emitted[m].price_date = Emitted[n].price_date) => m = n

\* C9: the date whose day of the year drives the seasonal component of a
\* row's price is the date the row is emitted with.
C9_SeasonalDateIsPriceDate ==
    \A n \in 1..Len(Emitted) :
        Emitted[n].price_date = strftime(SeasonalDate(END_DATE, Emitted[n].day_offset))

\* C6: a second execution of the script picks, for every (day offset,
\* category) pair, the saleyard and the state the first execution picked.
C6_SameChoiceAcrossRuns ==
    run = 2 =>
        \A n \in 1..Len(Emitted) :
            \A m \in 1..Len(RowsOf(previous_output)) :
                (/\ RowsOf(previous_output)[m].day_offset = Emitted[n].day_offset
                 /\ RowsOf(previous_output)[m].category = Emitted[n].category) =>
                    /\ RowsOf(previous_output)[m].saleyard = Emitted[n].saleyard
                    /\ RowsOf(previous_output)[m].state = Emitted[n].state

====
